---- MODULE Spec2Model ----
(***************************************************************************)
(* Model of UserContextProvider (src/app/context/userContext.tsx): the     *)
(* session controller that connects a wallet, logs in to the identity      *)
(* network (passportLogin), exchanges a signed nonce for a database access *)
(* token (loadDbAccessToken) and reconciles wallet changes.                *)
(*                                                                         *)
(* Execution model: single-threaded and cooperative.  Every action is one  *)
(* run of a handler from one suspension point (an await) to the next; the  *)
(* result of the awaited external call is drawn from a small set.  An      *)
(* async function reads the component state it closed over when it was     *)
(* created (the render it belongs to), and writes the live state through   *)
(* the setters.                                                            *)
(***************************************************************************)
EXTENDS Naturals, Sequences, FiniteSets

(* ------------------------------ bounds --------------------------------- *)
MaxEvents == 3         \* connect() and disconnect() calls and account switches

(* ------------------------------ values --------------------------------- *)
Proc == {1, 2}         \* concurrently pending connect() invocations
Tok == {1, 2}          \* concurrently pending loadDbAccessToken runs
Addr == {"A", "B"}     \* wallet.accounts[0].address
Label == "L"           \* wallet.label
Undef == "undefined"   \* JavaScript undefined (and the text it prints as)
NoWallet == [label |-> "null", address |-> "null"]
NoSession == [addr |-> "none", exp |-> "none"]
\* "stale": isExpired, or expireInSecs < 3600; the code tests only the two
\* together
Expiry == {"fresh", "stale"}
Sessions == {[addr |-> a, exp |-> e] : a \in Addr, e \in Expiry}
Absent == << >>                 \* localStorage.getItem(...) === null
UndefStr == <<"undefined">>     \* the string "undefined"
NoToken == << >>                \* dbAccessToken === undefined

VARIABLES
  MULTICHAIN_ENABLED, web3Onboard, account,
  wallet, vcStatus, vcSession,
  loggedIn, walletLabel, address, signer, loggingIn,
  dbAccessToken, dbAccessTokenStatus, walletConnectionError,
  sessionStore, tokenStore, connectedWallets, telemetry,
  lp, tx, dp, ww, sw, tokDeps,
  nEvents, quiet, last, happy

vars == <<MULTICHAIN_ENABLED, web3Onboard, account, wallet, vcStatus, vcSession,
          loggedIn, walletLabel, address, signer, loggingIn,
          dbAccessToken, dbAccessTokenStatus, walletConnectionError,
          sessionStore, tokenStore, connectedWallets, telemetry,
          lp, tx, dp, ww, sw, tokDeps,
          nEvents, quiet, last, happy>>

(* --------------------- conversions and small helpers ------------------- *)
\* session.serialize(): the text kept under didsession-{address}
serialize(s) == IF s = NoSession THEN UndefStr ELSE <<"didsession", s.addr, s.exp>>

\* what resuming a stored text yields when it parses (DIDSession.fromSession)
fromSession(str) == IF Len(str) = 3 THEN [addr |-> str[2], exp |-> str[3]] ELSE NoSession

\* !!sessionStr
Truthy(str) == str # Absent

\* session.isExpired || session.expireInSecs < 3600
isStale(s) == s.exp = "stale"

\* the access token the backend issues for the DID of session s
AccessOf(s) == <<"access", s.addr>>

\* wallet.label || ""  /  walletLabel || ""
LabelOr(l) == IF l = Undef THEN "" ELSE l

(* ------------------------- the component state ------------------------- *)
\* The live component state as one record, so that handler code composes.
\* telemetry counts the errors a handler run reports to datadogRum: every run
\* starts its count at 0.
Cur ==
  [wallet |-> wallet, vcStatus |-> vcStatus, vcSession |-> vcSession,
   loggedIn |-> loggedIn, walletLabel |-> walletLabel, address |-> address,
   signer |-> signer, loggingIn |-> loggingIn,
   dbAccessToken |-> dbAccessToken, dbAccessTokenStatus |-> dbAccessTokenStatus,
   walletConnectionError |-> walletConnectionError,
   sessionStore |-> sessionStore, tokenStore |-> tokenStore,
   connectedWallets |-> connectedWallets, telemetry |-> 0]

Apply(S) ==
  /\ wallet' = S.wallet /\ vcStatus' = S.vcStatus /\ vcSession' = S.vcSession
  /\ loggedIn' = S.loggedIn /\ walletLabel' = S.walletLabel
  /\ address' = S.address /\ signer' = S.signer /\ loggingIn' = S.loggingIn
  /\ dbAccessToken' = S.dbAccessToken
  /\ dbAccessTokenStatus' = S.dbAccessTokenStatus
  /\ walletConnectionError' = S.walletConnectionError
  /\ sessionStore' = S.sessionStore /\ tokenStore' = S.tokenStore
  /\ connectedWallets' = S.connectedWallets /\ telemetry' = S.telemetry

\* clearState(): setWalletLabel/setAddress/setSigner(undefined)
clearState(S) == [S EXCEPT !.walletLabel = Undef, !.address = Undef, !.signer = Undef]

\* datadogRum.addError(...)
addError(S) == [S EXCEPT !.telemetry = @ + 1]

\* web3OnboardDisconnect({label}) resolved: the wallet with that label is gone
web3OnboardDisconnect(S, label) ==
  IF S.wallet # NoWallet /\ S.wallet.label = label
  THEN [S EXCEPT !.wallet = NoWallet] ELSE S

\* ceramicDisconnect(): the viewer connection returns to idle
ceramicDisconnect(S) == [S EXCEPT !.vcStatus = "idle", !.vcSession = NoSession]

\* ceramicConnect(...) called: the viewer connection is connecting
ceramicConnecting(S) == [S EXCEPT !.vcStatus = "connecting", !.vcSession = NoSession]

\* ceramicConnect(...) resolved with a selfId / with null
ceramicConnected(S, s) == [S EXCEPT !.vcStatus = "connected", !.vcSession = s]
ceramicFailed(S) == [S EXCEPT !.vcStatus = "failed", !.vcSession = NoSession]

\* window.localStorage.removeItem(key) for both derived keys; key "" is no entry
removeItems(S, key) ==
  IF key \in Addr
  THEN [S EXCEPT !.sessionStore[key] = Absent, !.tokenStore[key] = Absent]
  ELSE S


\* window.localStorage.setItem("connectedWallets", JSON.stringify(labels))
stringify(labels) == <<"json", labels>>

(* --------------------------- connect / login --------------------------- *)
\* The locals of one connect() invocation.  cLoggingIn, cWallet and cOnboard
\* are the loggingIn, wallet and web3Onboard of the render whose connect was
\* called (cWallet: that wallet is not null; ensureMainnet alone reads it and
\* cOnboard); w is the wallet handed to passportLogin, chain what the wallet
\* answered to ensureMainnet ("" when it was not asked).
IdleLogin ==
  [pc |-> "idle", cLoggingIn |-> FALSE, cWallet |-> FALSE, cOnboard |-> FALSE,
   w |-> NoWallet, chain |-> "", sessionKey |-> "", sessionStr |-> Absent,
   exit |-> ""]

\* the state and the locals a handler run ends with
R(S, l) == [S |-> S, l |-> l]

\* the run reaches an await
at(S, l, pc) == R(S, [l EXCEPT !.pc = pc])

\* connect() returns (or rejects): what stays of the locals is how it ended
ended(S, l, pc, exit) ==
  R(S, [l EXCEPT !.pc = pc, !.exit = exit])

\* finally { setLoggingIn(false) } and passportLogin returns to connect
finallyDone(S, l, exit) == ended([S EXCEPT !.loggingIn = FALSE], l, "done", exit)

\* connect()'s catch: datadogRum.addError(error); throw error
connectCatch(S, l, exit) == ended(addError(S), l, "threw", exit)

\* handleConnectionError after its await: clearState and both removeItem calls
handleConnectionError(S, key, w) ==
  removeItems(clearState(web3OnboardDisconnect(S, LabelOr(w.label))), key)

\* the renewal branch up to its first await
renew(S, l) ==
  IF MULTICHAIN_ENABLED
  THEN at(S, l, "authorize")
  ELSE at(ceramicConnecting(S), l, "connectNew")

\* passportLogin from setLoggingIn(true) to the next await
afterChain(S, l, hasCorrectChainId) ==
  LET S1 == [S EXCEPT !.loggingIn = TRUE]
      l0 == [l EXCEPT !.cLoggingIn = FALSE, !.cWallet = FALSE, !.cOnboard = FALSE]
  IN
  IF hasCorrectChainId
  THEN LET S2 == [S1 EXCEPT !.connectedWallets = stringify(<<l.w.label>>)]
           key == l.w.address
           str == S2.sessionStore[key]
           l1 == [l0 EXCEPT !.sessionKey = key, !.sessionStr = str]
       IN IF Truthy(str) THEN at(ceramicConnecting(S2), l1, "resume")
                         ELSE renew(S2, l1)
  ELSE at(S1, l0, "wrongDisc")

\* passportLogin(w) from its guard to the first await
passportLogin(S, l) ==
  IF l.cLoggingIn
  THEN ended(S, l, "done", "noop")
  ELSE IF MULTICHAIN_ENABLED
       THEN afterChain(S, l, TRUE)
       ELSE IF l.cWallet /\ l.cOnboard
            THEN at(S, l, "ensureMainnet")
            ELSE afterChain(S, l, FALSE)

\* connect() after web3OnboardConnect resolved with wallet wv
connected(S, l, wv) ==
  IF wv = NoWallet
  THEN connectCatch(S, l, "connectThrew")
  ELSE passportLogin([S EXCEPT !.wallet = wv, !.walletLabel = wv.label,
                               !.address = wv.address, !.signer = wv.address],
                     [l EXCEPT !.w = wv])

\* ensureMainnet with a wallet and web3Onboard: what it returns, "throw" when
\* it throws.  o names the answers of eth_chainId and, off mainnet, of
\* setChain; between the two awaits nothing of the component is touched, so
\* they are taken as one.
ensureMainnet(o) ==
  CASE o = "mainnet" -> "true"
    [] o = "switched" -> "true"
    [] o = "refused" -> "false"
    [] o = "switchThrew" -> "false"
    [] OTHER -> "throw"

\* passportLogin after `await ensureMainnet()`
chainChecked(S, l, o) ==
  IF ensureMainnet(o) = "throw"
  THEN connectCatch(S, [l EXCEPT !.chain = o], "chainThrew")
  ELSE afterChain(S, [l EXCEPT !.chain = o], ensureMainnet(o) = "true")

\* ceramicConnect(ethAuthProvider, sessionStr) resolved
resumed(S, l, o) ==
  CASE o = "ok" ->
         LET s == fromSession(l.sessionStr)
             S1 == ceramicConnected(S, s)
         IN IF isStale(s) THEN at(S1, l, "staleDisc")
                          ELSE finallyDone(S1, l, "resumed")
    [] o = "null" -> renew(ceramicFailed(S), l)
    [] OTHER -> at(ceramicFailed(S), l, "catchDisc")

\* EthereumWebAuth.getAuthMethod and DIDSession.authorize resolved (nothing of
\* the component is touched between the two awaits, so they are taken as
\* one; o = "throw" when either throws); the new session is handed to
\* ceramicConnect
authorized(S, l, o) ==
  IF o = "ok"
  THEN at(ceramicConnecting(S),
          [l EXCEPT !.sessionStr = serialize([addr |-> l.w.address, exp |-> "fresh"])],
          "connectNew")
  ELSE at(S, l, "catchDisc")

\* the renewal's ceramicConnect resolved; the session is stored
connectedNew(S, l, o) ==
  CASE o = "ok" ->
         LET s == IF MULTICHAIN_ENABLED THEN fromSession(l.sessionStr)
                  ELSE [addr |-> l.w.address, exp |-> "fresh"]
             S1 == ceramicConnected(S, s)
         IN finallyDone([S1 EXCEPT !.sessionStore[l.sessionKey] = serialize(s)],
                        l, "renewed")
    [] o = "null" ->
         LET S1 == ceramicFailed(S)
         IN finallyDone([S1 EXCEPT !.sessionStore[l.sessionKey] = serialize(NoSession)],
                        l, "renewedNull")
    [] OTHER -> at(ceramicFailed(S), l, "catchDisc")

\* handleConnectionError of the stale branch resolved (inside the try)
staleTornDown(S, l, o) ==
  IF o = "ok"
  THEN finallyDone(handleConnectionError(S, l.sessionKey, l.w), l, "stale")
  ELSE at(S, l, "catchDisc")

\* handleConnectionError of the catch block resolved
caught(S, l, o) ==
  IF o = "ok"
  THEN finallyDone(
         addError([handleConnectionError(S, l.sessionKey, l.w)
                     EXCEPT !.walletConnectionError = "error"]),
         l, "caught")
  ELSE connectCatch([S EXCEPT !.loggingIn = FALSE], l, "teardownThrew")

\* the wrong-chain branch after web3OnboardDisconnect resolved
wrongChainDone(S, l, o) ==
  IF o = "ok"
  THEN ended([clearState(web3OnboardDisconnect(S, LabelOr(l.w.label)))
                EXCEPT !.loggingIn = FALSE],
             l, "done", "wrongChain")
  ELSE connectCatch(S, l, "wrongChainThrew")


(* ----------------------- access-token exchange ------------------------- *)
\* The locals of one loadDbAccessToken run: key is the address of the render
\* the effect ran in, did the session whose DID signs.
IdleExchange == [pc |-> "idle", key |-> Undef, did |-> NoSession]

\* getPassportDatabaseAccessToken threw
Threw == <<"throw">>

\* how far the external calls of one exchange succeed: the nonce request
\* fails; createDagJWS throws; it yields no cacaoBlock; Cacao.fromBlockBytes
\* throws; the POST is rejected; it answers without an access value; it
\* answers with one
Outcomes == {"nonceFail", "signThrow", "noCacao", "cacaoThrow", "postReject", "noAccess", "ok"}

\* the requests getPassportDatabaseAccessToken issues before it returns or
\* throws
requested(o) ==
  CASE o = "nonceFail" -> <<"nonce">>
    [] o = "signThrow" -> <<"nonce", "createDagJWS">>
    [] o = "noCacao" -> <<"nonce", "createDagJWS">>
    [] o = "cacaoThrow" -> <<"nonce", "createDagJWS", "fromBlockBytes">>
    [] OTHER -> <<"nonce", "createDagJWS", "fromBlockBytes", "authenticate">>

\* a getPassportDatabaseAccessToken that would throw on a failed nonce
\* request without reporting it
getTokenNonceUnreported(S, did, o) ==
  CASE o \in {"nonceFail", "signThrow", "cacaoThrow"} -> [S |-> S, ret |-> Threw]
    [] o \in {"noCacao", "postReject"} -> [S |-> addError(S), ret |-> Threw]
    [] o = "noAccess" -> [S |-> S, ret |-> NoToken]
    [] OTHER -> [S |-> S, ret |-> AccessOf(did)]

\* getPassportDatabaseAccessToken(did): the state it leaves and what it
\* returns.  Between its awaits it reads and writes nothing of the component,
\* so its four awaits are taken as one.
getPassportDatabaseAccessToken(S, did, o) ==
  CASE o = "nonceFail" -> [S |-> addError(S), ret |-> Threw]
    [] o = "signThrow" -> [S |-> S, ret |-> Threw]
    [] o = "noCacao" -> [S |-> addError(S), ret |-> Threw]
    [] o = "cacaoThrow" -> [S |-> S, ret |-> Threw]
    [] o = "postReject" -> [S |-> addError(S), ret |-> Threw]
    [] o = "noAccess" -> [S |-> S, ret |-> NoToken]
    [] OTHER -> [S |-> S, ret |-> AccessOf(did)]

\* a catch of loadDbAccessToken that would report nothing
exchangeCatchUnreported(S) == [S EXCEPT !.dbAccessTokenStatus = "failed"]

\* loadDbAccessToken's catch: setDbAccessTokenStatus("failed"); addError(msg)
exchangeCatch(S) == addError([S EXCEPT !.dbAccessTokenStatus = "failed"])

\* the value localStorage keeps for setItem(key, value)
stored(value) == IF value = NoToken THEN UndefStr ELSE value

\* lines 317-319: store the token, then set the token and its status
keepToken(S, key, token) ==
  [S EXCEPT !.tokenStore[key] = stored(token),
            !.dbAccessToken = token,
            !.dbAccessTokenStatus = IF token # NoToken THEN "connected" ELSE "failed"]

\* loadDbAccessToken after `await getPassportDatabaseAccessToken(did)`
exchanged(S, x, o) ==
  LET g == getPassportDatabaseAccessToken(S, x.did, o)
  IN IF g.ret = Threw THEN exchangeCatch(g.S) ELSE keepToken(g.S, x.key, g.ret)

(* ------------------------------ disconnect ----------------------------- *)
\* a disconnect() that would leave the viewer connection as it is
disconnectedKeepingCeramic(S, label) ==
  [[web3OnboardDisconnect(S, label) EXCEPT !.loggedIn = FALSE]
     EXCEPT !.connectedWallets = stringify(<< >>)]

\* disconnect() after its await resolved
disconnected(S, label) ==
  [ceramicDisconnect([web3OnboardDisconnect(S, label) EXCEPT !.loggedIn = FALSE])
     EXCEPT !.connectedWallets = stringify(<< >>)]

\* disconnect()'s catch: datadogRum.addError(e); throw e
disconnectCatch(S) == addError(S)

\* the wallet watcher after `await disconnect()`
reconciled(S, label) == clearState(disconnected(S, label))


\* What the last handler run was, for stating what holds right after it: the
\* operation, how it ended ("" while it waits at an await), the address its
\* keys derive from, the wallet it was handed and the answer to ensureMainnet.
NoLast == [op |-> "", exit |-> "", key |-> "", w |-> NoWallet, chain |-> ""]

(* -------------------------------- Init --------------------------------- *)
\* The component after mounting (the effect of line 291 has set web3Onboard),
\* over the sessions an earlier visit may have left in localStorage for
\* address A, the account the wallet starts on.  happy: the visit started
\* with no stored session and no external call has failed since.
Init ==
  /\ MULTICHAIN_ENABLED \in BOOLEAN
  /\ web3Onboard = TRUE
  /\ account = "A"
  /\ wallet = NoWallet /\ vcStatus = "idle" /\ vcSession = NoSession
  /\ loggedIn = FALSE /\ walletLabel = Undef /\ address = Undef /\ signer = Undef
  /\ loggingIn = FALSE
  /\ dbAccessToken = NoToken /\ dbAccessTokenStatus = "idle"
  /\ walletConnectionError = Undef
  /\ \E v \in {Absent} \cup {serialize([addr |-> "A", exp |-> e]) : e \in Expiry} :
       /\ sessionStore = [a \in Addr |-> IF a = "A" THEN v ELSE Absent]
       /\ happy = (v = Absent)
  /\ tokenStore = [a \in Addr \cup {Undef} |-> Absent]
  /\ connectedWallets = Absent
  /\ telemetry = 0
  /\ lp = [p \in Proc |-> IdleLogin]
  /\ tx = [t \in Tok |-> IdleExchange]
  /\ dp = [pc |-> "idle", label |-> ""]
  /\ ww = [pc |-> "idle", seen |-> NoWallet, label |-> ""]
  /\ sw = [seen |-> "idle", pending |-> {}]
  /\ tokDeps = [loggedIn |-> FALSE, status |-> "idle", address |-> Undef,
                session |-> NoSession]
  /\ nEvents = 0
  /\ quiet = 0
  /\ last = NoLast

(* ------------------------------- actions ------------------------------- *)
build == <<MULTICHAIN_ENABLED, web3Onboard>>
env == <<MULTICHAIN_ENABLED, web3Onboard, account>>
budget == <<nEvents>>

\* React runs the effects whose dependencies changed right after the handler
\* run that changed them, in the order the component declares them, before
\* any other event is handled.  A run that would need a third pending
\* exchange, or a second pending reconciliation, is not explored further.
FreeSlot(t) ==
  /\ tx[t].pc = "idle"
  /\ \A u \in Tok : u < t => tx[u].pc # "idle"
\* tokDeps: what the last run of the loadDbAccessToken effect saw (its three
\* dependencies, and the session of the viewer connection)
TokenEffectDue ==
  <<tokDeps.loggedIn, tokDeps.status, tokDeps.address>> # <<loggedIn, vcStatus, address>>
WalletEffectDue == ww.seen # wallet
StatusEffectDue == sw.seen # vcStatus
Settled == ~TokenEffectDue /\ ~WalletEffectDue /\ ~StatusEffectDue

\* The slots carry no identity: a pending invocation moves to the lowest slot.
Compact(f) ==
  IF f[1].pc = "idle" /\ f[2].pc # "idle" THEN [i \in {1, 2} |-> f[3 - i]] ELSE f

\* one run of a connect() invocation from an await to the next
LoginRun(p, r) ==
  /\ Settled
  /\ Apply(r.S)
  /\ lp' = Compact([lp EXCEPT ![p] = IF r.l.exit = "" THEN r.l ELSE IdleLogin])
  /\ last' = [op |-> "login", exit |-> r.l.exit, key |-> r.l.sessionKey, w |-> r.l.w,
               chain |-> r.l.chain]
  /\ quiet' = 0
  /\ UNCHANGED <<env, tx, dp, ww, sw, tokDeps, budget>>

\* the UI calls connect(): it reads connectedWallets and awaits web3OnboardConnect
Connect(p) ==
  /\ Settled
  /\ lp[p].pc = "idle"
  /\ \A q \in Proc : q < p => lp[q].pc # "idle"
  /\ nEvents < MaxEvents
  /\ nEvents' = nEvents + 1
  /\ lp' = [lp EXCEPT ![p] =
              [IdleLogin EXCEPT !.pc = "onboardConnect",
                                !.cLoggingIn = loggingIn,
                                !.cWallet = ~MULTICHAIN_ENABLED /\ wallet # NoWallet,
                                !.cOnboard = ~MULTICHAIN_ENABLED /\ web3Onboard]]
  /\ quiet' = 0
  /\ last' = NoLast
  /\ Apply(Cur)
  /\ UNCHANGED <<env, tx, dp, ww, sw, tokDeps, happy>>

\* web3OnboardConnect resolves: with the wallet on its active account, or with
\* none (it throws, or wallet.label throws on undefined)
ConnectResolved(p) ==
  /\ lp[p].pc = "onboardConnect"
  /\ \E wv \in {[label |-> Label, address |-> account], NoWallet} :
       /\ LoginRun(p, connected(Cur, lp[p], wv))
       /\ happy' = (happy /\ wv # NoWallet)

ChainChecked(p) ==
  /\ lp[p].pc = "ensureMainnet"
  /\ \E o \in {"mainnet", "switched", "refused", "switchThrew", "chainIdThrew"} :
       /\ LoginRun(p, chainChecked(Cur, lp[p], o))
       /\ happy' = (happy /\ o \in {"mainnet", "switched"})

\* a stored text that does not parse cannot resume to a session
Resumed(p) ==
  /\ lp[p].pc = "resume"
  /\ \E o \in {"ok", "null", "throw"} :
       /\ o = "ok" => fromSession(lp[p].sessionStr) # NoSession
       /\ LoginRun(p, resumed(Cur, lp[p], o))
       /\ happy' = (happy /\ o = "ok")

Authorized(p) ==
  /\ lp[p].pc = "authorize"
  /\ \E o \in {"ok", "throw"} :
       /\ LoginRun(p, authorized(Cur, lp[p], o))
       /\ happy' = (happy /\ o = "ok")

ConnectedNew(p) ==
  /\ lp[p].pc = "connectNew"
  /\ \E o \in {"ok", "null", "throw"} :
       /\ LoginRun(p, connectedNew(Cur, lp[p], o))
       /\ happy' = (happy /\ o = "ok")

StaleTornDown(p) ==
  /\ lp[p].pc = "staleDisc"
  /\ \E o \in {"ok", "throw"} :
       /\ LoginRun(p, staleTornDown(Cur, lp[p], o))
       /\ happy' = (happy /\ o = "ok")

Caught(p) ==
  /\ lp[p].pc = "catchDisc"
  /\ \E o \in {"ok", "throw"} :
       /\ LoginRun(p, caught(Cur, lp[p], o))
       /\ happy' = (happy /\ o = "ok")

WrongChainDone(p) ==
  /\ lp[p].pc = "wrongDisc"
  /\ \E o \in {"ok", "throw"} :
       /\ LoginRun(p, wrongChainDone(Cur, lp[p], o))
       /\ happy' = (happy /\ o = "ok")

\* useEffect(loadDbAccessToken, [loggedIn, viewerConnection.status, address])
TokenEffect ==
  /\ TokenEffectDue
  /\ tokDeps' = [loggedIn |-> loggedIn, status |-> vcStatus, address |-> address,
                 session |-> vcSession]
  /\ last' = NoLast
  /\ IF vcStatus = "connected"
     THEN \E t \in Tok :
            /\ FreeSlot(t)
            /\ tx' = [tx EXCEPT ![t] = [IdleExchange EXCEPT !.pc = "pending",
                                                             !.key = address,
                                                             !.did = vcSession]]
            /\ Apply([Cur EXCEPT !.dbAccessTokenStatus = "connecting"])
     ELSE Apply(Cur) /\ UNCHANGED tx
  /\ UNCHANGED <<env, lp, dp, ww, sw, budget, quiet, happy>>

Exchanged(t) ==
  /\ Settled
  /\ tx[t].pc = "pending"
  /\ \E o \in Outcomes :
       /\ Apply(exchanged(Cur, tx[t], o))
       /\ last' = [NoLast EXCEPT !.op = "exchange", !.exit = o, !.key = tx[t].key]
       /\ happy' = (happy /\ o = "ok")
  /\ tx' = Compact([tx EXCEPT ![t] = IdleExchange])
  /\ quiet' = 0
  /\ UNCHANGED <<env, lp, dp, ww, sw, tokDeps, budget>>

\* useEffect(..., [wallet]): the wallet watcher
WalletEffect ==
  /\ WalletEffectDue /\ ~TokenEffectDue
  /\ ww.pc = "idle"
  /\ last' = [NoLast EXCEPT !.op = "walletEffect"]
  /\ IF wallet = NoWallet
     THEN /\ Apply(clearState(Cur))
          /\ ww' = [ww EXCEPT !.seen = wallet]
     ELSE IF address # Undef /\ wallet.address # address
          THEN /\ ww' = [pc |-> "disc", seen |-> wallet, label |-> LabelOr(walletLabel)]
               /\ Apply(Cur)
          ELSE /\ ww' = [ww EXCEPT !.seen = wallet]
               /\ Apply(Cur)
  /\ UNCHANGED <<env, lp, tx, dp, sw, tokDeps, budget, quiet, happy>>

\* the watcher's `await disconnect()` resolves or rejects
WalletEffectDisconnected ==
  /\ Settled
  /\ ww.pc = "disc"
  /\ \E o \in {"ok", "throw"} :
       /\ Apply(IF o = "ok" THEN reconciled(Cur, ww.label) ELSE disconnectCatch(Cur))
       /\ last' = [NoLast EXCEPT !.op = "reconcile", !.exit = o, !.key = address]
       /\ happy' = (happy /\ o = "ok")
  /\ ww' = [ww EXCEPT !.pc = "idle", !.label = ""]
  /\ quiet' = 0
  /\ UNCHANGED <<env, lp, tx, dp, sw, tokDeps, budget>>

\* useEffect(..., [viewerConnection.status]): on "failed" it asks the connector
\* to disconnect walletLabel and does not await the answer
StatusEffect ==
  /\ StatusEffectDue /\ ~TokenEffectDue /\ ~WalletEffectDue
  /\ sw' = [seen |-> vcStatus,
            pending |-> IF vcStatus = "failed"
                        THEN sw.pending \cup {LabelOr(walletLabel)} ELSE sw.pending]
  /\ last' = [NoLast EXCEPT !.op = "statusEffect"]
  /\ Apply(Cur)
  /\ UNCHANGED <<env, lp, tx, dp, ww, tokDeps, budget, quiet, happy>>

\* (a request repeated for the same label is the same request: disconnecting a
\* label twice is disconnecting it once)
StatusDisconnected ==
  /\ Settled
  /\ \E label \in sw.pending, o \in {"ok", "throw"} :
       /\ Apply(IF o = "ok" THEN web3OnboardDisconnect(Cur, label) ELSE Cur)
       /\ last' = [NoLast EXCEPT !.op = "statusDisconnect", !.exit = o]
       /\ sw' = [sw EXCEPT !.pending = @ \ {label}]
       /\ happy' = (happy /\ o = "ok")
  /\ quiet' = 0
  /\ UNCHANGED <<env, lp, tx, dp, ww, tokDeps, budget>>

\* the UI calls disconnect(): it awaits web3OnboardDisconnect({label: walletLabel || ""})
Disconnect ==
  /\ Settled
  /\ dp.pc = "idle"
  /\ nEvents < MaxEvents
  /\ nEvents' = nEvents + 1
  /\ dp' = [pc |-> "await", label |-> LabelOr(walletLabel)]
  /\ last' = NoLast
  /\ quiet' = quiet + 1
  /\ Apply(Cur)
  /\ UNCHANGED <<env, lp, tx, ww, sw, tokDeps, happy>>

\* quiet counts the calls and returns of disconnect() that followed one
\* another with nothing run in between but the effects their own state changes
\* trigger: 2 after one undisturbed call has returned, 4 after a second one
\* made right after it
Disconnected ==
  /\ Settled
  /\ dp.pc = "await"
  /\ \E o \in {"ok", "throw"} :
       /\ Apply(IF o = "ok" THEN disconnected(Cur, dp.label) ELSE disconnectCatch(Cur))
       /\ last' = [NoLast EXCEPT !.op = "disconnect", !.exit = o]
       /\ quiet' = IF o = "ok" /\ quiet % 2 = 1 THEN quiet + 1 ELSE 0
       /\ happy' = (happy /\ o = "ok")
  /\ dp' = [pc |-> "idle", label |-> ""]
  /\ UNCHANGED <<env, lp, tx, ww, sw, tokDeps, budget>>

\* the user switches the active account in the wallet
AccountChange ==
  /\ Settled
  /\ wallet # NoWallet
  /\ nEvents < MaxEvents
  /\ nEvents' = nEvents + 1
  /\ \E a \in Addr \ {account} :
       /\ account' = a
       /\ Apply([Cur EXCEPT !.wallet.address = a])
  /\ quiet' = 0
  /\ last' = NoLast
  /\ UNCHANGED <<build, lp, tx, dp, ww, sw, tokDeps, happy>>

Next ==
  \/ \E p \in Proc : Connect(p)
  \/ \E p \in Proc : ConnectResolved(p)
  \/ \E p \in Proc : ChainChecked(p)
  \/ \E p \in Proc : Resumed(p)
  \/ \E p \in Proc : Authorized(p)
  \/ \E p \in Proc : ConnectedNew(p)
  \/ \E p \in Proc : StaleTornDown(p)
  \/ \E p \in Proc : Caught(p)
  \/ \E p \in Proc : WrongChainDone(p)
  \/ TokenEffect
  \/ \E t \in Tok : Exchanged(t)
  \/ WalletEffect
  \/ WalletEffectDisconnected
  \/ StatusEffect
  \/ StatusDisconnected
  \/ Disconnect
  \/ Disconnected
  \/ AccountChange

Spec == Init /\ [][Next]_vars


(* ------------------------- one visit, one connect ----------------------- *)
\* The user calls connect() once and does nothing else.  Every promise the
\* handlers await settles and React runs every due effect, so the steps of
\* the component (all but the call itself) are taken as long as one is
\* possible.
FirstConnect == nEvents = 0 /\ Connect(1)

VisitSteps ==
  \/ \E p \in Proc : ConnectResolved(p)
  \/ \E p \in Proc : Resumed(p)
  \/ \E p \in Proc : Authorized(p)
  \/ \E p \in Proc : ConnectedNew(p)
  \/ \E p \in Proc : StaleTornDown(p)
  \/ \E p \in Proc : Caught(p)
  \/ \E p \in Proc : WrongChainDone(p)
  \/ TokenEffect
  \/ \E t \in Tok : Exchanged(t)
  \/ WalletEffect
  \/ StatusEffect
  \/ StatusDisconnected

VisitNext == FirstConnect \/ VisitSteps

VisitSpec == Init /\ [][VisitNext]_vars /\ WF_vars(VisitSteps)


(* ------------------------------- claims -------------------------------- *)
\* a connect() invocation that has passed the guard of passportLogin and set
\* loggingIn: it is executing the login sequence
InSequence(p) ==
  lp[p].pc \in {"resume", "authorize", "connectNew", "staleDisc", "catchDisc", "wrongDisc"}

\* the last run was a login that returned or threw after acquiring the latch
LoginReturned ==
  /\ last.op = "login"
  /\ last.exit \in {"resumed", "renewed", "renewedNull", "stale", "caught",
                    "wrongChain", "teardownThrew", "wrongChainThrew"}

\* the text stored under didsession-{a} resumes to a session that is not stale
Usable(a) ==
  /\ fromSession(sessionStore[a]) # NoSession
  /\ ~isStale(fromSession(sessionStore[a]))

\* address, signer and label are cleared
MemoryCleared == address = Undef /\ signer = Undef /\ walletLabel = Undef

\* C1: of two login invocations, at most one executes the login sequence at
\* any time (the second finds the latch held and does nothing).
C1_OneLoginAtATime == Cardinality({p \in Proc : InSequence(p)}) <= 1

\* C2: a login whose resume yielded a stale session (expired, or expiring
\* within 3600 s) returns with a fresh session stored under the session key,
\* no stale session in use, and the wallet still connected.
C2_StaleIsRenewed ==
  (last.op = "login" /\ last.exit = "stale") =>
    /\ sessionStore[last.key] = serialize([addr |-> last.key, exp |-> "fresh"])
    /\ ~isStale(vcSession)
    /\ wallet # NoWallet
    /\ address = last.key

\* C3: the store never holds dbcache-token-{a} without didsession-{a}.
C3_NoDanglingToken ==
  \A a \in Addr : tokenStore[a] # Absent => sessionStore[a] # Absent

\* C4: right after login returns, either a usable session is stored under the
\* session key and the wallet is connected, or everything is cleared: no
\* session key, no access-token key, no wallet, no address, signer and label.
C4_UsableOrCleared ==
  LoginReturned =>
    LET a == last.w.address IN
    \/ Usable(a) /\ wallet # NoWallet
    \/ /\ sessionStore[a] = Absent /\ tokenStore[a] = Absent
       /\ wallet = NoWallet /\ MemoryCleared

\* C5: right after the wallet watcher reconciled an address change (its
\* disconnect() returned), all state
\* of the previous address is cleared: address, signer and label, its stored
\* session and access token, the access token in memory and its status.
C5_ReconcileClearsAll ==
  (last.op = "reconcile" /\ last.exit = "ok" /\ last.key \in Addr) =>
    /\ MemoryCleared
    /\ sessionStore[last.key] = Absent /\ tokenStore[last.key] = Absent
    /\ dbAccessToken = NoToken /\ dbAccessTokenStatus = "idle"

\* C6: the access-token status only moves idle -> connecting -> connected or
\* failed, and from connected or failed to connecting only when the session
\* of the viewer connection changed since the effect last ran.
C6_StatusMonotonic ==
  [][dbAccessTokenStatus' # dbAccessTokenStatus =>
       \/ dbAccessTokenStatus = "idle" /\ dbAccessTokenStatus' = "connecting"
       \/ dbAccessTokenStatus = "connecting"
            /\ dbAccessTokenStatus' \in {"connected", "failed"}
       \/ /\ dbAccessTokenStatus \in {"connected", "failed"}
          /\ dbAccessTokenStatus' = "connecting"
          /\ ~(tokDeps.status = "connected" /\ tokDeps.session = vcSession)]_vars

\* C7: when no login invocation is executing the login sequence, the latch
\* is released.
C7_LatchReleased == (\A p \in Proc : ~InSequence(p)) => ~loggingIn

\* C8: right after a login that caught an exception of load, resume or
\* renewal, the wallet is disconnected, address, signer and label are
\* cleared, both keys of the wallet's address are deleted, the error message
\* is recorded and reported, and the latch is released.
C8_TeardownOnException ==
  (last.op = "login" /\ last.exit \in {"caught", "teardownThrew"}) =>
    /\ wallet = NoWallet /\ MemoryCleared
    /\ sessionStore[last.key] = Absent /\ tokenStore[last.key] = Absent
    /\ walletConnectionError = "error"
    /\ telemetry >= 1
    /\ ~loggingIn

C10_DisconnectAllEffects ==
  last.op = "disconnect" =>
    /\ vcStatus = "idle"
    /\ connectedWallets = stringify(<< >>)
    /\ MemoryCleared

\* an exchange resumes after its await with outcome o and ends in this step
ExchangeEnds(o) ==
  /\ \E t \in Tok : tx[t].pc = "pending"
  /\ tx' # tx
  /\ last'.op = "exchange" /\ last'.exit = o

\* the outcomes with which getPassportDatabaseAccessToken fails
Failures == {"nonceFail", "signThrow", "noCacao", "cacaoThrow", "postReject"}

\* C11, as stated: an exchange whose nonce request fails ends with status
\* failed, writes nothing under the access-token key, issues no request after
\* the nonce request, and reports to telemetry exactly once.
C11_NonceFailureReportedOnce ==
  [][ExchangeEnds("nonceFail") =>
       /\ dbAccessTokenStatus' = "failed"
       /\ tokenStore' = tokenStore
       /\ requested("nonceFail") = <<"nonce">>
       /\ telemetry' = 1]_vars

\* C11, with the reports counted: an exchange whose nonce request fails ends
\* with status failed, writes nothing under the access-token key, issues no
\* request after the nonce request, and reports to telemetry twice (once
\* where the request failed, once in the catch of loadDbAccessToken).
C11_NonceFailure ==
  [][ExchangeEnds("nonceFail") =>
       /\ dbAccessTokenStatus' = "failed"
       /\ tokenStore' = tokenStore /\ dbAccessToken' = dbAccessToken
       /\ requested("nonceFail") = <<"nonce">>
       /\ telemetry' = 2]_vars

\* C11 witness: an exchange has just ended on a failed nonce request
C11_Witness ==
  /\ last.op = "exchange" /\ last.exit = "nonceFail"
  /\ dbAccessTokenStatus = "failed" /\ telemetry = 2

ExchangeStarts ==
  /\ dbAccessTokenStatus' = "connecting"
  /\ \E t \in Tok : tx[t].pc = "idle" /\ tx'[t].pc = "pending"

\* C13: after the one connect() of a visit, once an exchange has ended no
\* further exchange starts while the viewer connection keeps the session it
\* was connected with when the effect last ran.
C13_OneExchangePerSession ==
  [][(ExchangeStarts /\ nEvents <= 1 /\ \A t \in Tok : tx[t].pc = "idle") =>
       ~(tokDeps.status = "connected" /\ tokDeps.session = vcSession)]_vars

\* a login whose chain switch failed or was refused ends in this step
SwitchFailedEnds ==
  /\ last'.op = "login" /\ last'.exit # ""
  /\ last'.chain \in {"refused", "switchThrew"}
  /\ last' # last

\* C14: a login whose chain switch failed or was refused returns without an
\* exception, with the wallet disconnected, address, signer and label
\* cleared, the latch released, the viewer connection not used and the
\* session and access-token entries of the store as they were.
C14_SwitchFailureIsNegative ==
  [][SwitchFailedEnds =>
       /\ last'.exit = "wrongChain"
       /\ wallet' = NoWallet /\ MemoryCleared'
       /\ ~loggingIn'
       /\ vcStatus' = vcStatus /\ vcSession' = vcSession
       /\ sessionStore' = sessionStore /\ tokenStore' = tokenStore]_vars

\* C14 for the logins whose wallet disconnect resolved
C14_SwitchFailureDisconnected ==
  [][(SwitchFailedEnds /\ last'.exit = "wrongChain") =>
       /\ wallet' = NoWallet /\ MemoryCleared'
       /\ ~loggingIn'
       /\ vcStatus' = vcStatus /\ vcSession' = vcSession
       /\ sessionStore' = sessionStore /\ tokenStore' = tokenStore]_vars

\* C15: when the effect starts an exchange, no login is executing the login
\* sequence, the latch is released, and the session of the viewer connection
\* is stored under the session key of the recorded address.
C15_ExchangeAfterLogin ==
  [][ExchangeStarts =>
       /\ \A p \in Proc : ~InSequence(p)
       /\ ~loggingIn
       /\ address \in Addr
       /\ sessionStore[address] = serialize(vcSession)]_vars

\* C16: every entry of the store is keyed by the address it belongs to: no
\* access token is kept under the key of no address, and what is kept under
\* the keys of address a is a session of a and a token issued to a (or the
\* text "undefined").
C16_KeysOfOwnAddress ==
  /\ tokenStore[Undef] = Absent
  /\ \A a \in Addr :
       /\ tokenStore[a] \in {Absent, UndefStr, AccessOf([addr |-> a])}
       /\ sessionStore[a] \in {Absent, UndefStr} \cup {serialize(x) : x \in {y \in Sessions : y.addr = a}}

\* connect() has been called
Called == \E p \in Proc : lp[p].pc # "idle"

\* the access token of the connected session is held in memory with status
\* connected and stored under dbcache-token-{address}, and the serialized
\* session is stored under didsession-{address}
TokenAndSessionKept ==
  /\ dbAccessTokenStatus = "connected"
  /\ address \in Addr /\ vcSession \in Sessions /\ vcSession.addr = address
  /\ dbAccessToken = AccessOf(vcSession)
  /\ tokenStore[address] = AccessOf(vcSession)
  /\ sessionStore[address] = serialize(vcSession)

\* C17: for a user with no stored session who calls connect(), if no
\* external call ever fails, the component eventually reaches and stays in
\* the state with the token and the session kept.
C17_FreshUserConnects == (<>Called /\ []happy) => <>[]TokenAndSessionKept

\* C17 for the build with multichain support enabled
C17_FreshUserConnectsMultichain ==
  (MULTICHAIN_ENABLED /\ <>Called /\ []happy) => <>[]TokenAndSessionKept

\* C18: right after a login whose renewal branch completed without an
\* exception, the text stored under the session key resumes to a session of
\* the wallet's address that is not stale.
C18_RenewalStoresSession ==
  (last.op = "login" /\ last.exit \in {"renewed", "renewedNull"}) =>
    /\ fromSession(sessionStore[last.key]) # NoSession
    /\ fromSession(sessionStore[last.key]).addr = last.key
    /\ ~isStale(fromSession(sessionStore[last.key]))

\* C18 for the renewals whose ceramicConnect returned a selfId
C18_RenewalWithSelfIdStoresSession ==
  (last.op = "login" /\ last.exit = "renewed") =>
    /\ sessionStore[last.key] = serialize([addr |-> last.key, exp |-> "fresh"])
    /\ vcSession = fromSession(sessionStore[last.key])

\* C19: an exchange that ends with status failed leaves the store entry of
\* the access token and the access token in memory as they were.
C19_FailedExchangeChangesNothing ==
  [][(\E o \in Outcomes : ExchangeEnds(o)) /\ dbAccessTokenStatus' = "failed" =>
       tokenStore' = tokenStore /\ dbAccessToken' = dbAccessToken]_vars

\* C19 for the exchanges in which getPassportDatabaseAccessToken threw
C19_ThrownExchangeChangesNothing ==
  [][(\E o \in Failures : ExchangeEnds(o)) =>
       tokenStore' = tokenStore /\ dbAccessToken' = dbAccessToken]_vars

\* nothing is pending: no connect(), exchange, disconnect() or reconciliation
\* waits at an await, no disconnect request of the status watcher is
\* unanswered and no effect is due
AtRest ==
  /\ Settled
  /\ \A p \in Proc : lp[p].pc = "idle"
  /\ \A t \in Tok : tx[t].pc = "idle"
  /\ dp.pc = "idle" /\ ww.pc = "idle" /\ sw.pending = {}

\* the status watcher runs in this step on a status that became failed
WatcherSeesFailed ==
  sw'.seen # sw.seen /\ sw'.seen = "failed"

\* C20: the component never rests with the viewer connection failed and a
\* wallet connected.
C20_NoRestFailedAndConnected ==
  (AtRest /\ vcStatus = "failed") => wallet = NoWallet

\* C20, the request: when the status becomes failed while a wallet is
\* connected, the status watcher asks the connector to disconnect the label
\* of that wallet.
C20_WatcherRequestsDisconnect ==
  [][(WatcherSeesFailed /\ wallet # NoWallet) => wallet.label \in sw'.pending]_vars

====
